---------------------------- MODULE Spec2Model ----------------------------
(***************************************************************************)
(* Model of the device-state ingestion and live-broadcast engine of the    *)
(* ChirpStack IoT dashboard:                                               *)
(*   src/app/mqtt_client.py   MQTTClient (ingestion, device-state map)     *)
(*   src/app/main.py          startup, ConnectionManager, persistence,     *)
(*                            _get_device_status, control_device           *)
(*   src/chirpstack_cli.py    control_light, _send_switch_command          *)
(*                                                                         *)
(* Python values are modelled as follows.  A dict is a set of <<key,       *)
(* value>> pairs; a list is a sequence; scalars are strings ("-60",        *)
(* "None"); a key that is not in a dict reads as the marker NoKey.  The    *)
(* device entry is a record with one field per key the code ever writes,   *)
(* NoKey standing for "key not present in the entry".                      *)
(***************************************************************************)
EXTENDS Integers, Sequences, FiniteSets, TLC

VARIABLES
    device_data,        \* MQTTClient.device_data: key -> entry
    threads,            \* the per-message callback threads, in spawn order
    uplinks,            \* history: per device id, uplinks delivered so far
    drops,              \* history: messages delivered that are no uplink
    now,                \* wall clock, seconds (UTC)
    tz,                 \* the host's UTC offset, seconds
    startupPc,          \* position of startup_event
    aliased,            \* MQTTClient.device_data is main.device_data
    db,                 \* device_state table: device_eui -> row
    row_count,          \* device_state table: device_eui -> number of its rows
    active_connections, \* ConnectionManager.active_connections
    ws,                 \* per WebSocket, the state of its connection
    received,           \* per WebSocket, the notifications sent to it
    statusIn,           \* the live_data of the last status read
    statusOut,          \* what _get_device_status returned for it
    enqueued,           \* the Enqueue calls made to ChirpStack, in order
    response,           \* outcome of the last control request
    running,            \* MQTTClient.running
    connected,          \* MQTTClient.connected
    client,             \* MQTTClient.client is set
    startPc,            \* position of the thread running MQTTClient.start
    stopPc,             \* position of MQTTClient.stop
    link,               \* state of the client's connection to the broker
    attempts,           \* connection attempts made so far
    subscribed,         \* subscribe calls made so far
    application_id,     \* MQTTClient.application_id, from the configuration
    subscription,       \* the topic filter the broker holds for the session
    proc,               \* position of the network thread in _process_device_message
    observed            \* what the last reader of the device map saw

history == << uplinks, drops >>
clock == << now, tz >>
hub == << active_connections, ws, received >>

reader == << statusIn, statusOut >>
dispatcher == << enqueued, response >>
broker == << application_id, subscription >>
lifecycle == << running, connected, client, startPc, stopPc, link, attempts, subscribed, broker >>
sharing == << proc, observed >>

device_state == << db, row_count >>
engine == << device_data, threads, history, startupPc, aliased, device_state, hub >>
periphery == << reader, dispatcher, lifecycle, sharing >>

vars == << engine, clock, periphery >>

-----------------------------------------------------------------------------
(* Bounds of the model *)

MaxUplinks == 3
MaxDrops == 1
MaxClock == 1
MaxSockets == 3
MaxThreads == 2
MaxPeers == 1
MaxDownlinks == 2
MaxAttempts == 3
MaxSubscribes == 2

-----------------------------------------------------------------------------
(* Python values *)

NoKey == "<nokey>"
None == "None"
Unknown == "Unknown"

\* dict.get(key, default) on a dict given as a set of <<key, value>> pairs
DictGet(d, key, default) ==
    IF \E p \in d : p[1] = key
    THEN (CHOOSE p \in d : p[1] = key)[2]
    ELSE default

\* dict.update(other): keys of other replace, the remaining keys stay
DictUpdate(d, other) ==
    { p \in d : ~ \E q \in other : q[1] = p[1] } \cup other

\* str.lower() on the device EUIs the model uses
Lower(s) ==
    CASE s = "AA" -> "aa"
      [] s = "BB" -> "bb"
      [] OTHER -> s

Keys == { "aa", "bb" }


-----------------------------------------------------------------------------
(* Timestamps.  A timestamp string is modelled by what it says: its       *)
(* format, the wall-clock reading it spells out and the UTC offset it     *)
(* carries (0 for a naive string, which carries none).                    *)

NoStamp == [fmt |-> "none", wall |-> 0, off |-> 0]

\* datetime.now().strftime("%Y-%m-%d %H:%M:%S"): naive local wall-clock time
StrftimeLocalNow(t, offset) == [fmt |-> "local", wall |-> t + offset, off |-> 0]

\* dt.replace(tzinfo=timezone.utc).isoformat(), dt a naive UTC datetime
IsoformatUtc(t) == [fmt |-> "iso", wall |-> t, off |-> 0]

-----------------------------------------------------------------------------
(* MQTT messages *)

RxElem(isDict, d) == [isDict |-> isDict, d |-> d]

Rx1 == RxElem(TRUE, { <<"rssi", "-60">>, <<"snr", "7">>, <<"gatewayId", "gw1">> })
Rx2 == RxElem(TRUE, { <<"rssi", "-75">>, <<"snr", "5">>, <<"gatewayId", "gw2">> })
RxRssiOnly == RxElem(TRUE, { <<"rssi", "-90">> })
RxNotADict == RxElem(FALSE, {})

Tx1 == { <<"frequency", "868100000">>, <<"modulation.lora.spreadingFactor", "7">> }
Tx2 == { <<"frequency", "868300000">>, <<"modulation.lora.spreadingFactor", "9">> }
TxFreqOnly == { <<"frequency", "868500000">> }

Obj1 == { <<"temp", "22.5">> }
Obj2 == { <<"temp", "23.0">> }
Obj3 == { <<"hum", "40">> }
ObjSeed == { <<"temp", "19.0">>, <<"hum", "55">> }

UpTopic(eui) == << "application", "1", "device", eui, "event", "up" >>
JoinTopic(eui) == << "application", "1", "device", eui, "event", "join" >>

\* A broker message: the topic as its path segments; json = FALSE when the
\* payload bytes are not valid JSON; has* tell which keys the payload holds.
Message(topic, json, hasInfo, devEui, name, profile, hasObject, object, hasRx, rxInfo, hasTx, txInfo) ==
    [ topic |-> topic, json |-> json, hasInfo |-> hasInfo, devEui |-> devEui,
      deviceName |-> name, deviceProfileName |-> profile,
      hasObject |-> hasObject, object |-> object,
      hasRx |-> hasRx, rxInfo |-> rxInfo, hasTx |-> hasTx, txInfo |-> txInfo ]

Uplink(devEui, name, profile, hasObject, object, hasRx, rxInfo, hasTx, txInfo) ==
    Message(UpTopic(Lower(devEui)), TRUE, TRUE, devEui, name, profile,
            hasObject, object, hasRx, rxInfo, hasTx, txInfo)

\* Well-formed uplinks, covering: a first uplink with everything, then ones
\* without rxInfo / txInfo, with an empty rxInfo, without names, with another
\* letter case of the EUI, with two gateways, and for a second device.
GoodUplinks ==
    { Uplink("AA", "Sensor1", "AM103", TRUE, Obj1, TRUE, <<Rx1>>, TRUE, Tx1),
      Uplink("aa", "Sensor1", "AM103", TRUE, Obj2, FALSE, <<>>, FALSE, {}),
      Uplink("aa", NoKey, NoKey, TRUE, Obj3, TRUE, <<>>, TRUE, {}),
      Uplink("aa", "Sensor1", "AM103", FALSE, {}, TRUE, <<Rx2, Rx1>>, TRUE, Tx2),
      Uplink("aa", "Sensor1", "AM103", TRUE, Obj3, TRUE, <<RxRssiOnly>>, TRUE, TxFreqOnly),
      Uplink("BB", "Switch", "WS502", TRUE, Obj1, TRUE, <<Rx2>>, FALSE, {}),
      Uplink("bb", "Switch", "WS502", TRUE, Obj3, FALSE, <<>>, TRUE, Tx1) }

\* An uplink whose first rxInfo element is not an object
BadShapeUplinks ==
    { Uplink("aa", "Sensor1", "AM103", TRUE, Obj2, TRUE, <<RxNotADict>>, TRUE, Tx2) }

\* Messages the decoder must drop: payload not JSON, no deviceInfo, no devEui,
\* empty devEui, and a join event carrying an otherwise valid payload.
DroppedMessages ==
    { Message(UpTopic("aa"), FALSE, FALSE, NoKey, NoKey, NoKey, FALSE, {}, FALSE, <<>>, FALSE, {}),
      Message(UpTopic("aa"), TRUE, FALSE, NoKey, NoKey, NoKey, TRUE, Obj1, TRUE, <<Rx1>>, TRUE, Tx1),
      Message(UpTopic("aa"), TRUE, TRUE, NoKey, "Sensor1", "AM103", TRUE, Obj1, TRUE, <<Rx1>>, TRUE, Tx1),
      Message(UpTopic("aa"), TRUE, TRUE, "", "Sensor1", "AM103", TRUE, Obj2, TRUE, <<Rx2>>, TRUE, Tx2),
      Message(JoinTopic("aa"), TRUE, TRUE, "aa", "Sensor1", "AM103", TRUE, Obj2, TRUE, <<Rx2>>, TRUE, Tx2) }

Messages == GoodUplinks \cup BadShapeUplinks \cup DroppedMessages

\* Topics of the broker other than a device's uplink topic: the other events
\* of a device, and the uplink frames a gateway publishes
EventTopic(eui, event) == << "application", "1", "device", eui, "event", event >>
GatewayTopic(region, gateway) == << region, "gateway", gateway, "event", "up" >>

\* Messages on those topics, each carrying what is otherwise a whole uplink
\* payload of device aa
OtherTopicMessages ==
    { Message(topic, TRUE, TRUE, "aa", "Sensor1", "AM103", TRUE, Obj2, TRUE, <<Rx2>>, TRUE, Tx2) :
          topic \in { EventTopic("aa", "ack"), EventTopic("aa", "status"),
                      EventTopic("aa", "txack"), GatewayTopic("eu868", "gw1") } }

-----------------------------------------------------------------------------
(* The device-state map *)

MissingDict == { << NoKey, NoKey >> }

\* {'message_count': 0}: every other key is absent
FreshEntry ==
    [ message_count |-> 0, last_seen |-> NoStamp, decoded_data |-> MissingDict,
      device_name |-> NoKey, device_profile |-> NoKey,
      rssi |-> NoKey, snr |-> NoKey, gateway_id |-> NoKey,
      frequency |-> NoKey, spreading_factor |-> NoKey ]

HasEntry(dd, k) == k \in DOMAIN dd

\* self.device_data[k] = e
Put(dd, k, e) == [ x \in (DOMAIN dd) \cup {k} |-> IF x = k THEN e ELSE dd[x] ]

EmptyMap == [ x \in {} |-> FreshEntry ]

-----------------------------------------------------------------------------
(* Persistence: the device_state table and its (de)serialisation *)

\* json.dumps / json.loads of a decoded-data dict: the text is tagged, so a
\* dict and its serialisation are different values
JsonDumps(d) == << "json", d >>
JsonLoads(text) == text[2]

Row(name, stamp, decoded, count, rssi, snr) ==
    [ device_name |-> name, last_seen |-> stamp, decoded_data |-> JsonDumps(decoded),
      message_count |-> count, rssi |-> rssi, snr |-> snr ]

EmptyDb == [ x \in {} |-> Row(Unknown, 0, {}, 0, None, None) ]

\* What an earlier run of the server may have left in the table
InitialDbs ==
    { EmptyDb,
      [ x \in {"aa"} |-> Row("Sensor1", 0, ObjSeed, 5, "-60", "7") ],
      [ x \in {"aa", "bb"} |-> IF x = "aa" THEN Row("Sensor1", 0, ObjSeed, 5, "-60", "7")
                                           ELSE Row(Unknown, 0, {}, 1, None, None) ] }

\* Mutant of LoadedEntry: the counter of a loaded entry starts again at 0
LoadedEntryCountReset(row) ==
    [ FreshEntry EXCEPT
        !.device_name = row.device_name,
        !.device_profile = Unknown,
        !.last_seen = IsoformatUtc(row.last_seen),
        !.decoded_data = JsonLoads(row.decoded_data),
        !.rssi = row.rssi,
        !.snr = row.snr ]

\* load_device_states: one entry per row
LoadedEntry(row) ==
    [ FreshEntry EXCEPT
        !.device_name = row.device_name,
        !.device_profile = Unknown,
        !.message_count = row.message_count,
        !.last_seen = IsoformatUtc(row.last_seen),
        !.decoded_data = JsonLoads(row.decoded_data),
        !.rssi = row.rssi,
        !.snr = row.snr ]

load_device_states(table) == [ k \in DOMAIN table |-> LoadedEntry(table[k]) ]

-----------------------------------------------------------------------------
(* Callback threads (run_callback), created by _process_device_message *)

NoData ==
    [ decoded_data |-> MissingDict, last_seen |-> NoStamp, message_count |-> 0,
      rssi |-> NoKey, snr |-> NoKey ]

\* threading.Thread(target=run_callback): the closure holds device_eui and
\* payload.  pc is the thread's position, data the dict it passes to the
\* callback, device_name and existing the locals of the save, i the position
\* of the iterator over active_connections, disconnected the list of
\* broadcast, j the position of the loop over it.  start records, for the
\* claims, the subscribers registered when the pass began.
NewThread(eui, object) ==
    [ eui |-> eui, object |-> object, pc |-> "spawned", data |-> NoData,
      device_name |-> NoKey, existing |-> FALSE,
      i |-> 1, disconnected |-> << >>, j |-> 1,
      start |-> << >> ]

-----------------------------------------------------------------------------
(* MQTTClient._on_message and _process_device_message *)

StartsWithUp(segment) == segment \in { "up", "uplink" }

\* "/event/up" in msg.topic
TopicHasEventUp(topic) ==
    \E i \in 2 .. (Len(topic) - 1) : topic[i] = "event" /\ StartsWithUp(topic[i + 1])

\* Mutant of PayloadEui: the device id is taken as the payload spells it
PayloadEuiAsSent(m) ==
    IF m.hasInfo /\ m.devEui # NoKey THEN m.devEui ELSE ""

\* device_info.get('devEui', '').lower(), device_info = payload.get('deviceInfo', {})
PayloadEui(m) ==
    IF m.hasInfo /\ m.devEui # NoKey THEN Lower(m.devEui) ELSE ""

PayloadName(m) == IF m.hasInfo /\ m.deviceName # NoKey THEN m.deviceName ELSE Unknown

PayloadProfile(m) ==
    IF m.hasInfo /\ m.deviceProfileName # NoKey THEN m.deviceProfileName ELSE Unknown

\* payload.get('object', {}), payload.get('rxInfo', []), payload.get('txInfo', {})
PayloadObject(m) == IF m.hasObject THEN m.object ELSE {}
PayloadRx(m) == IF m.hasRx THEN m.rxInfo ELSE << >>
PayloadTx(m) == IF m.hasTx THEN m.txInfo ELSE {}

\* Mutant of Accepts: the check of the device id is missing
AcceptsWithoutEuiCheck(m) == TopicHasEventUp(m.topic) /\ m.json

\* The message reaches the update of the device entry (line 121)
Accepts(m) == TopicHasEventUp(m.topic) /\ m.json /\ PayloadEui(m) # ""

\* lines 126-132
MainUpdate(e, m, t, offset) ==
    [ e EXCEPT
        !.last_seen = StrftimeLocalNow(t, offset),
        !.message_count = e.message_count + 1,
        !.decoded_data = PayloadObject(m),
        !.device_name = PayloadName(m),
        !.device_profile = PayloadProfile(m) ]

\* first_rx.get(...) raises when the first element is not a dict
RxRaises(m) == PayloadRx(m) # << >> /\ ~ PayloadRx(m)[1].isDict

\* Mutant of RxUpdate: the fields are written even without rxInfo
RxUpdateUnconditional(e, m) ==
    [ e EXCEPT
        !.rssi = IF PayloadRx(m) # << >> THEN DictGet(PayloadRx(m)[1].d, "rssi", None) ELSE None,
        !.snr = IF PayloadRx(m) # << >> THEN DictGet(PayloadRx(m)[1].d, "snr", None) ELSE None,
        !.gateway_id =
            IF PayloadRx(m) # << >> THEN DictGet(PayloadRx(m)[1].d, "gatewayId", None) ELSE None ]

\* lines 135-142
RxUpdate(e, m) ==
    IF PayloadRx(m) # << >>
    THEN [ e EXCEPT
             !.rssi = DictGet(PayloadRx(m)[1].d, "rssi", None),
             !.snr = DictGet(PayloadRx(m)[1].d, "snr", None),
             !.gateway_id = DictGet(PayloadRx(m)[1].d, "gatewayId", None) ]
    ELSE e

\* lines 145-150
TxUpdate(e, m) ==
    IF PayloadTx(m) # {}
    THEN [ e EXCEPT
             !.frequency = DictGet(PayloadTx(m), "frequency", None),
             !.spreading_factor =
                 DictGet(PayloadTx(m), "modulation.lora.spreadingFactor", None) ]
    ELSE e

\* Mutant of EntryOrFresh: the entry is initialised on every uplink
EntryAlwaysFresh(dd, k) == FreshEntry

\* lines 121-123
EntryOrFresh(dd, k) == IF HasEntry(dd, k) THEN dd[k] ELSE FreshEntry

\* The entry as _process_device_message leaves it; an exception raised by the
\* rxInfo handling is caught at line 181 after the update of lines 126-132
ProcessedEntry(e, m, t, offset) ==
    IF RxRaises(m)
    THEN MainUpdate(e, m, t, offset)
    ELSE TxUpdate(RxUpdate(MainUpdate(e, m, t, offset), m), m)

\* What the broker delivered is an uplink of a device: an uplink topic, a
\* JSON payload and a non-empty deviceInfo.devEui
ValidUplink(m) ==
    /\ m.topic[Len(m.topic)] = "up"
    /\ m.json
    /\ m.hasInfo
    /\ m.devEui \notin { NoKey, "" }

\* Uplinks delivered so far, over all devices (the model stops at MaxUplinks)
TotalUplinks == uplinks["aa"] + uplinks["bb"]

\* The history of deliveries: uplinks per device id, other messages in all
Delivered(m) ==
    IF ValidUplink(m)
    THEN /\ TotalUplinks < MaxUplinks
         /\ uplinks' = [ uplinks EXCEPT ![Lower(m.devEui)] = @ + 1 ]
         /\ drops' = drops
    ELSE /\ drops' = IF drops < MaxDrops THEN drops + 1 ELSE drops
         /\ uplinks' = uplinks

\* Mutant of NetworkLoopReady: the callback runs on the network thread, which
\* takes the next message only when the callback has returned
NetworkLoopWaitsForCallback ==
    /\ startupPc = "started"
    /\ \A t \in 1 .. Len(threads) : threads[t].pc \in { "done", "raised" }

\* Mutant of NetworkLoopReady: an error in a message handler ends the network
\* loop
NetworkLoopStopsOnError == startupPc = "started" /\ drops = 0

\* lines 175-176: callback_thread.start() returns at once, so that the network
\* loop takes the next message whatever the callback threads are doing
NetworkLoopReady == startupPc = "started"

\* One message delivered to _on_message by the network loop
OnMessage(m) ==
    /\ NetworkLoopReady
    /\ Delivered(m)
    /\ IF Accepts(m)
       THEN /\ device_data' =
                 Put(device_data, PayloadEui(m),
                     ProcessedEntry(EntryOrFresh(device_data, PayloadEui(m)), m, now, tz))
            /\ threads' =
                 IF RxRaises(m) THEN threads
                 ELSE Append(threads, NewThread(PayloadEui(m), PayloadObject(m)))
       ELSE UNCHANGED << device_data, threads >>
    /\ UNCHANGED periphery
    /\ UNCHANGED << clock, startupPc, aliased, device_state, hub >>

\* Time passes
Tick ==
    /\ now < MaxClock
    /\ now' = now + 1
    /\ UNCHANGED periphery
    /\ UNCHANGED << device_data, threads, history, tz, startupPc, aliased, device_state, hub >>

-----------------------------------------------------------------------------
(* startup_event *)

\* Mutant of StartupLoad: the load also runs once the MQTT client delivers
StartupLoadAnytime ==
    /\ startupPc \in { "init", "started" }
    /\ device_data' =
         [ k \in (DOMAIN device_data) \cup (DOMAIN db) |->
             IF k \in DOMAIN db THEN LoadedEntry(db[k]) ELSE device_data[k] ]
    /\ startupPc' = IF startupPc = "init" THEN "loaded" ELSE "started"
    /\ UNCHANGED periphery
    /\ UNCHANGED << threads, history, clock, aliased, device_state, hub >>

\* lines 253-256: device_data.update(load_device_states(session))
StartupLoad ==
    /\ startupPc = "init"
    /\ device_data' = load_device_states(db)
    /\ startupPc' = "loaded"
    /\ UNCHANGED periphery
    /\ UNCHANGED << threads, history, clock, aliased, device_state, hub >>

\* lines 280-293: MQTTClient(device_data=device_data, ...), whose constructor
\* keeps "device_data or {}": an empty dict is replaced by a new one
StartupStartMqtt ==
    /\ startupPc = "loaded"
    /\ aliased' = (device_data # EmptyMap)
    /\ startupPc' = "started"
    /\ UNCHANGED periphery
    /\ UNCHANGED << device_data, threads, history, clock, device_state, hub >>

startup_event == StartupLoad \/ StartupStartMqtt

\* The server process ends and is started again: the module state is that
\* after import, the daemon threads and the connections are gone, the table
\* is as the last commit left it
Restart ==
    /\ startupPc = "started"
    /\ device_data' = EmptyMap
    /\ threads' = << >>
    /\ startupPc' = "init"
    /\ aliased' = FALSE
    /\ active_connections' = << >>
    /\ ws' = [ w \in DOMAIN ws |-> "new" ]
    /\ received' = [ w \in DOMAIN received |-> << >> ]
    /\ UNCHANGED periphery
    /\ UNCHANGED << history, clock, device_state >>

\* main.device_data, the dict the HTTP handlers and the callback read
GlobalDeviceData == IF aliased THEN device_data ELSE EmptyMap

-----------------------------------------------------------------------------
(* run_callback: the thread of one uplink.  It evaluates the callback's      *)
(* arguments, then runs enhanced_update_callback on an event loop of its     *)
(* own: save_device_state, then ConnectionManager.broadcast_device_update.   *)

Threads == 1 .. Len(threads)

SetThread(t, r) == [ threads EXCEPT ![t] = r ]

\* mqtt_client.py lines 163-169: the dict is built when the thread runs, from
\* the payload of the closure and from the entry as it is by then
CallbackData(t) ==
    [ decoded_data |-> threads[t].object,
      last_seen |-> device_data[threads[t].eui].last_seen,
      message_count |-> device_data[threads[t].eui].message_count,
      rssi |-> IF device_data[threads[t].eui].rssi = NoKey
               THEN None ELSE device_data[threads[t].eui].rssi,
      snr |-> IF device_data[threads[t].eui].snr = NoKey
              THEN None ELSE device_data[threads[t].eui].snr ]

CallbackBuild(t) ==
    /\ threads[t].pc = "spawned"
    /\ threads' = SetThread(t, [ threads[t] EXCEPT !.data = CallbackData(t), !.pc = "built" ])
    /\ UNCHANGED periphery
    /\ UNCHANGED << device_data, history, clock, startupPc, aliased, device_state, hub >>

\* main.py line 270: data has no 'device_name', so the name comes from the
\* module's device_data
SavedName(eui) ==
    IF HasEntry(GlobalDeviceData, eui) /\ GlobalDeviceData[eui].device_name # NoKey
    THEN GlobalDeviceData[eui].device_name
    ELSE Unknown

\* Mutant of SaveSelect: the callback writes the name it resolved back into
\* the entry of the device
SaveSelectStoringName(t) ==
    /\ threads[t].pc = "built"
    /\ threads' = SetThread(t, [ threads[t] EXCEPT
                                   !.device_name = SavedName(threads[t].eui),
                                   !.existing = (threads[t].eui \in DOMAIN db),
                                   !.pc = "selected" ])
    /\ device_data' = [ device_data EXCEPT
                          ![threads[t].eui].device_name = SavedName(threads[t].eui) ]
    /\ UNCHANGED periphery
    /\ UNCHANGED << history, clock, startupPc, aliased, device_state, hub >>

\* save_device_state line 612: the select
SaveSelect(t) ==
    /\ threads[t].pc = "built"
    /\ threads' = SetThread(t, [ threads[t] EXCEPT
                                   !.device_name = SavedName(threads[t].eui),
                                   !.existing = (threads[t].eui \in DOMAIN db),
                                   !.pc = "selected" ])
    /\ UNCHANGED periphery
    /\ UNCHANGED << device_data, history, clock, startupPc, aliased, device_state, hub >>

\* The row save_device_state writes (lines 616-632)
SavedRow(t) ==
    Row(threads[t].device_name, now, threads[t].data.decoded_data,
        threads[t].data.message_count, threads[t].data.rssi, threads[t].data.snr)

\* Mutant of InsertAccepted: the table has no unique index on device_eui
InsertWithoutUniqueIndex(n) == TRUE

\* models.py line 73, device_eui: str = Field(unique=True, index=True): the
\* table takes a new row for a device_eui that has n rows only when n = 0;
\* otherwise the commit raises IntegrityError
InsertAccepted(n) == n = 0

\* save_device_state lines 614-622 and 636: the commit writes the row that
\* the select found
Updates(t, commits) == commits /\ threads[t].existing

\* lines 625-636: the commit writes a new row
Inserts(t, commits) ==
    commits /\ ~threads[t].existing /\ InsertAccepted(row_count[threads[t].eui])

\* Mutant of SaveCommit: a commit the database refuses takes the uplink back
\* out of the device map
SaveCommitRollingBack(t, commits) ==
    /\ threads[t].pc = "selected"
    /\ db' = IF Updates(t, commits) \/ Inserts(t, commits)
             THEN [ k \in (DOMAIN db) \cup { threads[t].eui } |->
                      IF k = threads[t].eui THEN SavedRow(t) ELSE db[k] ]
             ELSE db
    /\ row_count' = IF Inserts(t, commits)
                    THEN [ row_count EXCEPT ![threads[t].eui] = @ + 1 ]
                    ELSE row_count
    /\ device_data' =
         IF commits THEN device_data
         ELSE [ device_data EXCEPT ![threads[t].eui].message_count = @ - 1 ]
    /\ threads' = SetThread(t, [ threads[t] EXCEPT
                                   !.pc = "sending", !.i = 1, !.disconnected = << >>,
                                   !.start = active_connections ])
    /\ UNCHANGED periphery
    /\ UNCHANGED << history, clock, startupPc, aliased, hub >>

\* save_device_state lines 614-641: the update or the insert, and the commit.
\* commits = FALSE is a commit the database refuses; an insert of a
\* device_eui that is in the table by now violates the unique index.  Either
\* way the exception is caught and rolled back.  broadcast then starts:
\* disconnected = [] and the iterator over active_connections.
SaveCommit(t, commits) ==
    /\ threads[t].pc = "selected"
    /\ db' = IF Updates(t, commits) \/ Inserts(t, commits)
             THEN [ k \in (DOMAIN db) \cup { threads[t].eui } |->
                      IF k = threads[t].eui THEN SavedRow(t) ELSE db[k] ]
             ELSE db
    /\ row_count' = IF Inserts(t, commits)
                    THEN [ row_count EXCEPT ![threads[t].eui] = @ + 1 ]
                    ELSE row_count
    /\ threads' = SetThread(t, [ threads[t] EXCEPT
                                   !.pc = "sending", !.i = 1, !.disconnected = << >>,
                                   !.start = active_connections ])
    /\ UNCHANGED periphery
    /\ UNCHANGED << device_data, history, clock, startupPc, aliased, hub >>

\* The device_data message of broadcast_device_update, as one subscriber gets
\* it; uplink names the uplink whose thread sends it
Notification(t) ==
    [ type |-> "device_data", device_eui |-> threads[t].eui, data |-> threads[t].data,
      uplink |-> t ]

\* Mutant of BroadcastSend: a send that raises is not caught and ends the pass
BroadcastSendUncaught(t) ==
    /\ threads[t].pc = "sending"
    /\ IF threads[t].i <= Len(active_connections)
       THEN LET w == active_connections[threads[t].i]
            IN  /\ received' =
                     IF ws[w] = "open"
                     THEN [ received EXCEPT ![w] = Append(@, Notification(t)) ]
                     ELSE received
                /\ threads' = SetThread(t,
                       IF ws[w] = "open"
                       THEN [ threads[t] EXCEPT !.i = @ + 1 ]
                       ELSE [ threads[t] EXCEPT !.pc = "raised" ])
       ELSE /\ threads' = SetThread(t, [ threads[t] EXCEPT !.pc = "removing", !.j = 1 ])
            /\ received' = received
    /\ UNCHANGED periphery
    /\ UNCHANGED << device_data, history, clock, startupPc, aliased, device_state,
                    active_connections, ws >>

\* ConnectionManager.broadcast lines 214-219: one turn of the loop over the
\* live list.  send_text raises on a connection whose peer is gone.
BroadcastSend(t) ==
    /\ threads[t].pc = "sending"
    /\ IF threads[t].i <= Len(active_connections)
       THEN LET w == active_connections[threads[t].i]
            IN  /\ received' =
                     IF ws[w] = "open"
                     THEN [ received EXCEPT ![w] = Append(@, Notification(t)) ]
                     ELSE received
                /\ threads' = SetThread(t, [ threads[t] EXCEPT
                       !.i = @ + 1,
                       !.disconnected = IF ws[w] = "open" THEN @ ELSE Append(@, w) ])
       ELSE /\ threads' = SetThread(t, [ threads[t] EXCEPT !.pc = "removing", !.j = 1 ])
            /\ received' = received
    /\ UNCHANGED periphery
    /\ UNCHANGED << device_data, history, clock, startupPc, aliased, device_state,
                    active_connections, ws >>

InList(list, x) == \E n \in 1 .. Len(list) : list[n] = x

\* list.remove(x): the first occurrence goes
ListRemove(list, x) ==
    LET n == CHOOSE n \in 1 .. Len(list) :
                 list[n] = x /\ \A q \in 1 .. (n - 1) : list[q] # x
    IN  SubSeq(list, 1, n - 1) \o SubSeq(list, n + 1, Len(list))

\* broadcast line 222 and disconnect line 201: the membership test for the
\* next connection of disconnected
DisconnectCheck(t) ==
    /\ threads[t].pc = "removing"
    /\ threads' = SetThread(t,
         IF threads[t].j > Len(threads[t].disconnected)
         THEN [ threads[t] EXCEPT !.pc = "done" ]
         ELSE IF InList(active_connections, threads[t].disconnected[threads[t].j])
              THEN [ threads[t] EXCEPT !.pc = "remove" ]
              ELSE [ threads[t] EXCEPT !.j = @ + 1 ])
    /\ UNCHANGED periphery
    /\ UNCHANGED << device_data, history, clock, startupPc, aliased, device_state, hub >>

\* disconnect line 202: list.remove, which raises ValueError when the
\* connection has left the list since the test; the exception ends the
\* thread in the except of run_callback
DisconnectRemove(t) ==
    /\ threads[t].pc = "remove"
    /\ IF InList(active_connections, threads[t].disconnected[threads[t].j])
       THEN /\ active_connections' =
                 ListRemove(active_connections, threads[t].disconnected[threads[t].j])
            /\ threads' = SetThread(t, [ threads[t] EXCEPT !.pc = "removing", !.j = @ + 1 ])
       ELSE /\ active_connections' = active_connections
            /\ threads' = SetThread(t, [ threads[t] EXCEPT !.pc = "raised" ])
    /\ UNCHANGED periphery
    /\ UNCHANGED << device_data, history, clock, startupPc, aliased, device_state, ws, received >>

\* One step of the callback thread t
run_callback(t) ==
    \/ CallbackBuild(t)
    \/ SaveSelect(t)
    \/ \E commits \in BOOLEAN : SaveCommit(t, commits)
    \/ BroadcastSend(t)
    \/ DisconnectCheck(t)
    \/ DisconnectRemove(t)

-----------------------------------------------------------------------------
(* websocket_endpoint and its peer *)

\* lines 675 and 195-198: accept, then append (the server accepts connections
\* once startup_event has returned; connections are numbered as they arrive)
WsConnect(w) ==
    /\ startupPc = "started"
    /\ ws[w] = "new"
    /\ \A v \in 1 .. (w - 1) : ws[v] # "new"
    /\ ws' = [ ws EXCEPT ![w] = "open" ]
    /\ active_connections' = Append(active_connections, w)
    /\ UNCHANGED periphery
    /\ UNCHANGED << device_data, threads, history, clock, startupPc, aliased, device_state, received >>

\* The peer closes the connection: sends raise from now on
WsPeerClose(w) ==
    /\ ws[w] = "open"
    /\ ws' = [ ws EXCEPT ![w] = "closed" ]
    /\ UNCHANGED periphery
    /\ UNCHANGED << device_data, threads, history, clock, startupPc, aliased, device_state,
                    active_connections, received >>

\* lines 682-686 and 200-203: receive_text raises, the endpoint disconnects
WsEndpointDisconnect(w) ==
    /\ ws[w] = "closed"
    /\ ws' = [ ws EXCEPT ![w] = "gone" ]
    /\ active_connections' =
         IF InList(active_connections, w) THEN ListRemove(active_connections, w)
         ELSE active_connections
    /\ UNCHANGED periphery
    /\ UNCHANGED << device_data, threads, history, clock, startupPc, aliased, device_state, received >>

websocket_endpoint(w) == WsConnect(w) \/ WsPeerClose(w) \/ WsEndpointDisconnect(w)

-----------------------------------------------------------------------------
(* Device status: _get_device_status and the endpoints that call it *)

OnlineSeconds == 120
RecentSeconds == 600

\* the literal 'Never' that get_devices stores under last_seen
Never == [fmt |-> "never", wall |-> 0, off |-> 0]

\* device_data.get(dev_eui, {}): the entry, or the empty dict
LiveData(found, entry) == [ found |-> found, entry |-> entry ]
NoLiveData == LiveData(FALSE, FreshEntry)

\* not live_data or not live_data.get('last_seen')
NoLastSeen(live_data) == ~live_data.found \/ live_data.entry.last_seen.fmt = "none"

\* 'T' in last_seen_str
HasT(stamp) == stamp.fmt = "iso"

\* strptime raises on a string that is not "%Y-%m-%d %H:%M:%S"
ParseRaises(stamp) == ~HasT(stamp) /\ stamp.fmt # "local"

\* The aware datetime parsed from the string, as seconds UTC: an ISO string
\* carries its offset, the old format is taken to be UTC
ParseLastSeen(stamp) == IF HasT(stamp) THEN stamp.wall - stamp.off ELSE stamp.wall

\* The comparison chain with both bounds inclusive
ClassifyInclusive(time_diff) ==
    IF time_diff <= OnlineSeconds THEN "online"
    ELSE IF time_diff <= RecentSeconds THEN "recent"
    ELSE "offline"

Classify(time_diff) ==
    IF time_diff < OnlineSeconds THEN "online"
    ELSE IF time_diff < RecentSeconds THEN "recent"
    ELSE "offline"

get_device_status(live_data, now_utc) ==
    IF NoLastSeen(live_data) THEN "offline"
    ELSE IF ParseRaises(live_data.entry.last_seen) THEN "offline"
    ELSE Classify(now_utc - ParseLastSeen(live_data.entry.last_seen))

\* GET /api/devices/{dev_eui}
get_device(live_data) ==
    /\ statusIn' = live_data
    /\ statusOut' = get_device_status(live_data, now)
    /\ UNCHANGED << engine, clock, sharing, dispatcher, lifecycle >>

\* The minimal structure get_devices builds for a device without live data
MinimalLiveData ==
    LiveData(TRUE, [ FreshEntry EXCEPT !.last_seen = Never, !.decoded_data = {},
                                       !.device_name = Unknown,
                                       !.device_profile = Unknown ])

\* GET /api/devices, for one device of the list
get_devices(live_data) ==
    LET used == IF ~live_data.found THEN MinimalLiveData ELSE live_data
    IN  /\ statusIn' = used
        /\ statusOut' = get_device_status(used, now)
        /\ UNCHANGED << engine, clock, sharing, dispatcher, lifecycle >>

\* Time passes between two reads
Elapse(t) ==
    /\ t > now
    /\ now' = t
    /\ UNCHANGED << engine, tz, periphery >>

-----------------------------------------------------------------------------
(* Command dispatch: control_device, control_light, _send_switch_command *)

F_PORT == 85

\* The outcome of a control request as its caller sees it
Response(by, status, detail) == [ by |-> by, status |-> status, detail |-> detail ]
NoResponse == Response("none", "none", "")

\* payload = {'switch_1': action, 'switch_2': action}
SwitchPayloadCombined(switch_type, action) ==
    { << "switch_1", action >>, << "switch_2", action >> }

\* payload = {switch_type: action}
SwitchPayload(switch_type, action) == { << switch_type, action >> }

\* The queue item _send_switch_command hands to Enqueue
QueueItem(dev_eui, action, switch_type) ==
    [ dev_eui |-> dev_eui, confirmed |-> TRUE, f_port |-> F_PORT,
      object |-> SwitchPayload(switch_type, action) ]

\* action is not None
ValidActionPresent(action) == action # None

\* action in ["on", "off"]
ValidAction(action) == action \in { "on", "off" }

\* The calls of _send_switch_command for the channels in types, one after the
\* other.  failAt = 0: every call returns.  failAt = n > 0: the n-th call
\* raises (get_client or Enqueue failed), so that the calls before it have
\* enqueued their item and the calls after it are never made.
Raises(types, failAt) == failAt \in 1 .. Len(types)
SendAll(dev_eui, action, types, failAt) ==
    LET made == IF Raises(types, failAt) THEN failAt - 1 ELSE Len(types)
    IN  [ n \in 1 .. made |-> QueueItem(dev_eui, action, types[n]) ]

BothSwitches == << "switch_1", "switch_2" >>

\* POST /api/devices/{dev_eui}/control
control_device(dev_eui, bodyOk, action, switch, failAt) ==
    LET types == IF switch # None /\ switch \in { "switch_1", "switch_2" }
                 THEN << switch >> ELSE BothSwitches
    IN  /\ IF ~bodyOk
           THEN /\ response' = Response("control_device", "400", "Invalid request body")
                /\ enqueued' = enqueued
           ELSE IF ~ValidAction(action)
           THEN /\ response' = Response("control_device", "400", "Action must be 'on' or 'off'")
                /\ enqueued' = enqueued
           ELSE /\ Len(enqueued) + Len(types) <= MaxDownlinks
                /\ enqueued' = enqueued \o SendAll(dev_eui, action, types, failAt)
                /\ response' =
                       IF Raises(types, failAt)
                       THEN Response("control_device", "500", "Failed to send command")
                       ELSE IF Len(types) = 1
                       THEN Response("control_device", "200", "Command sent: switch")
                       ELSE Response("control_device", "200", "Command sent: both switches")
        /\ UNCHANGED << engine, clock, sharing, reader, lifecycle >>

\* chirpstack_cli control-light DEV_EUI ACTION --switch SWITCH
control_light(dev_eui, action, switch, failAt) ==
    LET types == IF switch = "both" THEN BothSwitches ELSE << switch >>
    IN  /\ IF ~ValidAction(action)
           THEN /\ response' = Response("control_light", "exit 1", "Action must be 'on' or 'off'")
                /\ enqueued' = enqueued
           ELSE IF switch \notin { "switch_1", "switch_2", "both" }
           THEN /\ response' = Response("control_light", "exit 1", "Switch must be 'switch_1', 'switch_2', or 'both'")
                /\ enqueued' = enqueued
           ELSE /\ Len(enqueued) + Len(types) <= MaxDownlinks
                /\ enqueued' = enqueued \o SendAll(dev_eui, action, types, failAt)
                /\ response' =
                       IF Raises(types, failAt)
                       THEN Response("control_light", "raised", "Failed to send command")
                       ELSE IF Len(types) = 1
                       THEN Response("control_light", "exit 0", "Command sent: switch")
                       ELSE Response("control_light", "exit 0", "Command sent: both switches")
        /\ UNCHANGED << engine, clock, sharing, reader, lifecycle >>

-----------------------------------------------------------------------------
(* The MQTT client's life cycle: start, stop, _on_connect, _on_disconnect *)
(*                                                                         *)
(* link is the state of the paho client's connection:                      *)
(*   "none"     no socket yet                                              *)
(*   "pending"  TCP connection made, CONNECT sent, CONNACK not yet read    *)
(*   "up"       session established                                        *)
(*   "down"     connection lost or refused by the broker                   *)
(*   "closing"  disconnect() has sent DISCONNECT                           *)
(*   "closed"   disconnected on request                                    *)

Bump(n, max) == IF n < max THEN n + 1 ELSE n

\* The application ids a configuration may hold: one, none, an empty one
ApplicationIds == { "1", None, "" }

\* topic = "application/+/device/+/event/up" whatever the configuration
SubscribeTopicWildcard(app) == << "application", "+", "device", "+", "event", "up" >>

\* _on_connect: the topic passed to client.subscribe
SubscribeTopic(app) ==
    IF app \notin { None, "" }
    THEN << "application", app, "device", "+", "event", "up" >>
    ELSE << "application", "+", "device", "+", "event", "up" >>

\* mqtt_thread.start() in startup_event
StartThread ==
    /\ startPc = "idle"
    /\ startPc' = "create"
    /\ UNCHANGED << running, connected, client, stopPc, link, attempts, subscribed, broker >>
    /\ UNCHANGED << engine, clock, sharing, reader, dispatcher >>

\* start(): self.client = mqtt.Client(...), callbacks and credentials set
StartCreateClient ==
    /\ startPc = "create"
    /\ client' = TRUE
    /\ startPc' = "connect"
    /\ UNCHANGED << running, connected, stopPc, link, attempts, subscribed, broker >>
    /\ UNCHANGED << engine, clock, sharing, reader, dispatcher >>

\* start(): self.client.connect(host, port, 60).  It returns once the TCP
\* connection is made and CONNECT is sent, and raises when the broker cannot
\* be reached: the except clause then ends start()
StartConnect(ok) ==
    /\ startPc = "connect"
    /\ attempts' = Bump(attempts, MaxAttempts)
    /\ IF ok
       THEN /\ link' = "pending"
            /\ startPc' = "set_running"
            /\ running' = running
       ELSE /\ link' = link
            /\ running' = FALSE
            /\ startPc' = "returned"
    /\ UNCHANGED << connected, client, stopPc, subscribed, broker >>
    /\ UNCHANGED << engine, clock, sharing, reader, dispatcher >>

\* start(): self.running = True
StartSetRunning ==
    /\ startPc = "set_running"
    /\ running' = TRUE
    /\ startPc' = "loop"
    /\ UNCHANGED << connected, client, stopPc, link, attempts, subscribed, broker >>
    /\ UNCHANGED << engine, clock, sharing, reader, dispatcher >>

\* loop_forever reads the CONNACK.  rc = 0: _on_connect subscribes.  rc # 0:
\* _on_connect, then the client closes the socket and calls _on_disconnect
LoopConnack(rc) ==
    /\ startPc = "loop"
    /\ link = "pending"
    /\ IF rc = 0
       THEN /\ connected' = TRUE
            /\ subscribed' = Bump(subscribed, MaxSubscribes)
            /\ subscription' = SubscribeTopic(application_id)
            /\ link' = "up"
       ELSE /\ connected' = FALSE
            /\ subscribed' = subscribed
            /\ subscription' = subscription
            /\ link' = "down"
    /\ UNCHANGED << running, client, startPc, stopPc, attempts, application_id >>
    /\ UNCHANGED << engine, clock, sharing, reader, dispatcher >>

\* loop_forever finds the connection broken: _on_disconnect with rc # 0
LoopConnectionLost ==
    /\ startPc = "loop"
    /\ link \in { "pending", "up" }
    /\ connected' = FALSE
    /\ link' = "down"
    /\ subscription' = NoKey
    /\ UNCHANGED << running, client, startPc, stopPc, attempts, subscribed, application_id >>
    /\ UNCHANGED << engine, clock, sharing, reader, dispatcher >>

\* loop_forever, after the wait: reconnect(), which raises OSError when the
\* broker cannot be reached; loop_forever catches it and comes back here
LoopReconnect(ok) ==
    /\ startPc = "loop"
    /\ link = "down"
    /\ attempts' = Bump(attempts, MaxAttempts)
    /\ link' = IF ok THEN "pending" ELSE "down"
    /\ UNCHANGED << running, connected, client, startPc, stopPc, subscribed, broker >>
    /\ UNCHANGED << engine, clock, sharing, reader, dispatcher >>

\* loop_forever sees the socket closed after a DISCONNECT: _on_disconnect
\* with rc = 0
LoopDisconnected ==
    /\ startPc = "loop"
    /\ link = "closing"
    /\ connected' = FALSE
    /\ link' = "closed"
    /\ UNCHANGED << running, client, startPc, stopPc, attempts, subscribed, broker >>
    /\ UNCHANGED << engine, clock, sharing, reader, dispatcher >>

\* loop_forever returns, and start() with it
LoopExit ==
    /\ startPc = "loop"
    /\ link = "closed"
    /\ startPc' = "returned"
    /\ UNCHANGED << running, connected, client, stopPc, link, attempts, subscribed, broker >>
    /\ UNCHANGED << engine, clock, sharing, reader, dispatcher >>

loop_forever ==
    \/ \E rc \in { 0, 5 } : LoopConnack(rc)
    \/ LoopConnectionLost
    \/ \E ok \in BOOLEAN : LoopReconnect(ok)
    \/ LoopDisconnected
    \/ LoopExit

start ==
    \/ StartCreateClient
    \/ \E ok \in BOOLEAN : StartConnect(ok)
    \/ StartSetRunning
    \/ loop_forever

\* stop(): self.running = False
StopSetFlag ==
    /\ stopPc = "idle"
    /\ startPc # "idle"
    /\ running' = FALSE
    /\ stopPc' = "disconnect"
    /\ UNCHANGED << connected, client, startPc, link, attempts, subscribed, broker >>
    /\ UNCHANGED << engine, clock, sharing, reader, dispatcher >>

\* stop(): if self.client: self.client.disconnect(); self.client.loop_stop().
\* No thread was started with loop_start, so loop_stop does nothing
StopDisconnect ==
    /\ stopPc = "disconnect"
    /\ stopPc' = "stopped"
    /\ link' = IF ~client THEN link
               ELSE IF link \in { "pending", "up" } THEN "closing"
               ELSE IF link \in { "none", "down" } THEN "closed"
               ELSE link
    /\ subscription' = IF client /\ link \in { "pending", "up" } THEN NoKey ELSE subscription
    /\ UNCHANGED << running, connected, client, startPc, attempts, subscribed, application_id >>
    /\ UNCHANGED << engine, clock, sharing, reader, dispatcher >>

stop == StopSetFlag \/ StopDisconnect

-----------------------------------------------------------------------------
(* _process_device_message statement by statement, as the other threads of *)
(* the process see it, and a concurrent reader of the device map           *)

NoMessage == Message(<< >>, FALSE, FALSE, NoKey, NoKey, NoKey, FALSE, {}, FALSE, << >>, FALSE, {})

\* The network thread is not inside _process_device_message.  While it is,
\* proc holds the message and, for the claims, what the map held for the
\* device when the message arrived
Idle == [ pc |-> "idle", m |-> NoMessage, before |-> NoLiveData ]

\* dd.get(k, {})
Lookup(dd, k) == IF HasEntry(dd, k) THEN LiveData(TRUE, dd[k]) ELSE NoLiveData

\* _on_message and lines 111-123: filter, json.loads, device id, and the
\* initialisation of an entry the map does not hold yet
ProcBegin(m) ==
    /\ NetworkLoopReady
    /\ proc.pc = "idle"
    /\ Delivered(m)
    /\ IF Accepts(m)
       THEN /\ device_data' =
                 Put(device_data, PayloadEui(m), EntryOrFresh(device_data, PayloadEui(m)))
            /\ proc' = [ pc |-> "main", m |-> m, before |-> Lookup(device_data, PayloadEui(m)) ]
       ELSE UNCHANGED << device_data, proc >>
    /\ UNCHANGED << threads, clock, startupPc, aliased, device_state, hub >>
    /\ UNCHANGED << reader, dispatcher, lifecycle, observed >>

\* lines 126-132
ProcMain ==
    /\ proc.pc = "main"
    /\ device_data' =
         Put(device_data, PayloadEui(proc.m),
             MainUpdate(device_data[PayloadEui(proc.m)], proc.m, now, tz))
    /\ proc' = [ proc EXCEPT !.pc = "rx" ]
    /\ UNCHANGED << threads, history, clock, startupPc, aliased, device_state, hub >>
    /\ UNCHANGED << reader, dispatcher, lifecycle, observed >>

\* lines 135-142; an exception ends the processing at line 181
ProcRx ==
    /\ proc.pc = "rx"
    /\ IF RxRaises(proc.m)
       THEN /\ device_data' = device_data
            /\ proc' = Idle
       ELSE /\ device_data' =
                 Put(device_data, PayloadEui(proc.m),
                     RxUpdate(device_data[PayloadEui(proc.m)], proc.m))
            /\ proc' = [ proc EXCEPT !.pc = "tx" ]
    /\ UNCHANGED << threads, history, clock, startupPc, aliased, device_state, hub >>
    /\ UNCHANGED << reader, dispatcher, lifecycle, observed >>

\* lines 145-150 and 154-176: the last update, then the callback thread
ProcTx ==
    /\ proc.pc = "tx"
    /\ device_data' =
         Put(device_data, PayloadEui(proc.m),
             TxUpdate(device_data[PayloadEui(proc.m)], proc.m))
    /\ threads' = Append(threads, NewThread(PayloadEui(proc.m), PayloadObject(proc.m)))
    /\ proc' = Idle
    /\ UNCHANGED << history, clock, startupPc, aliased, device_state, hub >>
    /\ UNCHANGED << reader, dispatcher, lifecycle, observed >>

process_device_message == ProcMain \/ ProcRx \/ ProcTx

\* get_devices on the event loop: get_device_data() copies the map, not its
\* entries, so that live_data is the entry the network thread is updating
ReadDevice(k) ==
    /\ startupPc = "started"
    /\ observed' = Lookup(device_data, k)
    /\ UNCHANGED << engine, clock, reader, dispatcher, lifecycle, proc >>

-----------------------------------------------------------------------------
(* Specifications *)

TzOffsets == { 0, 19800, -18000 }
WebSockets == 1 .. MaxSockets

InitState(times) ==
    /\ device_data = EmptyMap
    /\ threads = << >>
    /\ uplinks = [ k \in Keys |-> 0 ]
    /\ drops = 0
    /\ now \in times
    /\ tz \in TzOffsets
    /\ startupPc = "init"
    /\ aliased = FALSE
    /\ db \in InitialDbs
    /\ row_count = [ k \in Keys |-> IF k \in DOMAIN db THEN 1 ELSE 0 ]
    /\ active_connections = << >>
    /\ ws = [ w \in WebSockets |-> "new" ]
    /\ received = [ w \in WebSockets |-> << >> ]
    /\ statusIn = NoLiveData
    /\ statusOut = "unread"
    /\ enqueued = << >>
    /\ response = NoResponse
    /\ running = FALSE
    /\ connected = FALSE
    /\ client = FALSE
    /\ startPc = "idle"
    /\ stopPc = "idle"
    /\ link = "none"
    /\ attempts = 0
    /\ subscribed = 0
    /\ application_id \in ApplicationIds
    /\ subscription = NoKey
    /\ proc = Idle
    /\ observed = NoLiveData

\* The server as configured for one application
Init == InitState({ 0 }) /\ application_id = "1"

\* The device-state store: startup, message delivery, time
NextStore ==
    \/ startup_event
    \/ \E m \in Messages : OnMessage(m)
    \/ Tick

SpecStore == Init /\ [][NextStore]_vars

\* The store when the broker also delivers messages of other topics
NextTopics ==
    \/ startup_event
    \/ \E m \in Messages \cup OtherTopicMessages : OnMessage(m)
    \/ Tick

SpecTopics == Init /\ [][NextTopics]_vars

\* The instants of the status specification: uplinks were received at the
\* ReceiveTimes, the device list is read at the ReadTimes
ReceiveTimes == { 700, 1000, 1001 }
ReadTimes == { 1000, 1119, 1120, 1300, 1599, 1600, 1700 }

\* The live_data the endpoints can find: nothing, an entry written by the MQTT
\* client at one of the ReceiveTimes, an entry loaded from the table
StatusInputs ==
    { NoLiveData }
    \cup { LiveData(TRUE, [ FreshEntry EXCEPT !.message_count = 1,
                                !.last_seen = StrftimeLocalNow(t, tz) ]) :
           t \in ReceiveTimes }
    \cup { LiveData(TRUE, LoadedEntry(Row("Sensor1", t, ObjSeed, 5, "-60", "7"))) :
           t \in ReceiveTimes }

NextStatus ==
    \/ \E live_data \in StatusInputs : get_device(live_data)
    \/ \E live_data \in StatusInputs : get_devices(live_data)
    \/ \E t \in ReadTimes : Elapse(t)

InitStatus == InitState({ 1000 }) /\ db = EmptyDb /\ application_id = "1"

SpecStatus == InitStatus /\ [][NextStatus]_vars

\* The device list read while uplinks arrive, on hosts of every time zone;
\* no time passes between an uplink and the read
NextFreshness ==
    \/ startup_event
    \/ \E m \in GoodUplinks : OnMessage(m)
    \/ \E k \in Keys : startupPc = "started" /\ get_devices(Lookup(device_data, k))

SpecFreshness == Init /\ [][NextFreshness]_vars

\* What an operator can put into a control request
RequestActions == { "on", "off", "toggle", None }
RequestSwitches == { "switch_1", "switch_2", "both", "switch_3", None }
CliActions == { "on", "off", "toggle" }
CliSwitches == { "switch_1", "switch_2", "both", "switch_3" }

NextDispatch ==
    \/ \E dev_eui \in Keys, bodyOk \in BOOLEAN, action \in RequestActions,
          switch \in RequestSwitches, failAt \in 0 .. 2 :
           control_device(dev_eui, bodyOk, action, switch, failAt)
    \/ \E dev_eui \in Keys, action \in CliActions, switch \in CliSwitches,
          failAt \in 0 .. 2 :
           control_light(dev_eui, action, switch, failAt)

\* The engine at rest, host on UTC, empty table
InitQuiet == Init /\ tz = 0 /\ db = EmptyDb

SpecDispatch == InitQuiet /\ [][NextDispatch]_vars

\* The thread of start() and the shutdown handler, running concurrently
NextLifecycle ==
    \/ StartThread
    \/ start
    \/ stop

\* Any configuration of the application id, host on UTC, empty table
InitLifecycle == InitState({ 0 }) /\ tz = 0 /\ db = EmptyDb

SpecLifecycle == InitLifecycle /\ [][NextLifecycle]_vars

\* The uplinks the pipeline specifications deliver: two of one device, the
\* second without rxInfo, and one of another device
PipelineUplinks ==
    { Uplink("AA", "Sensor1", "AM103", TRUE, Obj1, TRUE, <<Rx1>>, TRUE, Tx1),
      Uplink("aa", "Sensor1", "AM103", TRUE, Obj2, FALSE, <<>>, FALSE, {}),
      Uplink("BB", "Switch", "WS502", TRUE, Obj1, TRUE, <<Rx2>>, FALSE, {}) }

\* The whole pipeline: the network loop, the callback threads it starts and
\* the WebSocket endpoint, all running concurrently
NextPipeline ==
    \/ startup_event
    \/ \E m \in PipelineUplinks : Len(threads) < MaxThreads /\ OnMessage(m)
    \/ \E t \in Threads : run_callback(t)
    \/ \E w \in 1 .. MaxPeers : websocket_endpoint(w)

\* A host on UTC whose table is empty or holds one device
InitPipeline ==
    /\ Init
    /\ tz = 0
    /\ db \in { EmptyDb, [ x \in {"aa"} |-> Row("Sensor1", 0, ObjSeed, 5, "-60", "7") ] }

SpecPipeline == InitPipeline /\ [][NextPipeline]_vars

\* The pipeline of a server that is stopped and started again
NextRestart ==
    \/ NextPipeline
    \/ Restart

SpecRestart == InitPipeline /\ [][NextRestart]_vars

\* Thread t has returned or died
Finished(t) == threads[t].pc \in { "done", "raised" }

\* No broadcast pass is under way
NoPass == \A t \in Threads : threads[t].pc \notin { "sending", "removing", "remove" }

\* The pipeline at a low message rate: the callback of an uplink has returned
\* before the next uplink arrives, and subscribers register and unregister
\* between broadcast passes (a peer may still close during one)
NextSerial ==
    \/ startup_event
    \/ \E m \in PipelineUplinks :
           /\ Len(threads) < MaxThreads
           /\ \A t \in Threads : Finished(t)
           /\ OnMessage(m)
    \/ \E t \in Threads : run_callback(t)
    \/ \E w \in WebSockets : NoPass /\ WsConnect(w)
    \/ \E w \in WebSockets : WsPeerClose(w)
    \/ \E w \in WebSockets : NoPass /\ WsEndpointDisconnect(w)

SpecSerial == InitPipeline /\ [][NextSerial]_vars

\* The network thread and a reader on the event loop, running concurrently
NextReaders ==
    \/ startup_event
    \/ \E m \in PipelineUplinks \cup BadShapeUplinks :
           Len(threads) < MaxThreads /\ ProcBegin(m)
    \/ process_device_message
    \/ \E k \in Keys : ReadDevice(k)

SpecReaders == InitPipeline /\ [][NextReaders]_vars

\* The hub under load: the broadcast pass of one uplink while subscribers
\* come and go on the event loop
NextHub ==
    \/ startup_event
    \/ \E m \in PipelineUplinks : threads = << >> /\ OnMessage(m)
    \/ \E t \in Threads : run_callback(t)
    \/ \E w \in WebSockets : websocket_endpoint(w)

SpecHub == InitPipeline /\ [][NextHub]_vars

-----------------------------------------------------------------------------
(* Claims about the device-state store, checked under SpecStore *)

\* message_count the table held for k when the server started
SeedCount(k) == IF k \in DOMAIN db THEN db[k].message_count ELSE 0

\* C1: whatever the interleaving of uplinks of different devices, a device's
\* message_count is the number of uplinks delivered for its id (on top of the
\* count it was seeded with, 0 when the map started empty); a device without
\* uplink and without seed has no entry.
C1_MessageCountIsUplinkCount ==
    startupPc = "started" =>
        \A k \in Keys :
            /\ HasEntry(device_data, k) <=> (uplinks[k] > 0 \/ k \in DOMAIN db)
            /\ HasEntry(device_data, k) =>
                   device_data[k].message_count = SeedCount(k) + uplinks[k]

\* Two uplinks of one device interleaved with one of another, from an empty map
C1_Witness ==
    /\ db = EmptyDb
    /\ uplinks["aa"] = 2 /\ uplinks["bb"] = 1
    /\ device_data["aa"].message_count = 2
    /\ device_data["bb"].message_count = 1

\* C3: a message that is not valid JSON or has no (or an empty) devEui
\* changes no entry, creates none and starts no callback thread (the thread
\* is what writes to the table and broadcasts).
C3_DroppedMessageHasNoEffect ==
    [][ \A m \in DroppedMessages :
            OnMessage(m) =>
                UNCHANGED << device_data, threads, device_state, hub >> ]_vars

\* A dropped message was delivered while the map held an entry
C3_Witness ==
    /\ drops > 0
    /\ HasEntry(device_data, "aa") /\ uplinks["aa"] > 0

\* C6: no uplink is delivered before the load has completed, and once a live
\* uplink has been applied to a seeded device its entry holds the live data:
\* a locally formatted receipt time, the seeded count plus the live uplinks,
\* and a decoded_data that is not the seeded one.
C6_LiveDataNotOverwrittenBySeed ==
    /\ (TotalUplinks > 0 \/ threads # << >>) => startupPc = "started"
    /\ \A k \in Keys :
           (k \in DOMAIN db /\ uplinks[k] > 0) =>
               /\ HasEntry(device_data, k)
               /\ device_data[k].last_seen.fmt = "local"
               /\ device_data[k].last_seen.wall <= now + tz
               /\ device_data[k].message_count = db[k].message_count + uplinks[k]
               /\ device_data[k].decoded_data # JsonLoads(db[k].decoded_data)

\* A seeded device received a live uplink
C6_Witness ==
    /\ "aa" \in DOMAIN db
    /\ uplinks["aa"] = 1
    /\ device_data["aa"].message_count = 6
    /\ device_data["aa"].decoded_data = Obj2

\* C7: an uplink without rxInfo, or with an empty one, leaves rssi, snr and
\* gateway_id as they were, one without txInfo leaves frequency and
\* spreading_factor as they were; decoded_data becomes the uplink's object
\* and message_count goes up by 1.
C7_AbsentRadioInfoKeepsStoredValues ==
    [][ \A m \in GoodUplinks :
            OnMessage(m) =>
                LET k == Lower(m.devEui)
                    old == IF k \in DOMAIN device_data THEN device_data[k] ELSE FreshEntry
                    new == device_data'[k]
                IN  /\ new.decoded_data = (IF m.hasObject THEN m.object ELSE {})
                    /\ new.message_count = old.message_count + 1
                    /\ (~ m.hasRx \/ m.rxInfo = << >>) =>
                           /\ new.rssi = old.rssi
                           /\ new.snr = old.snr
                           /\ new.gateway_id = old.gateway_id
                    /\ (~ m.hasTx) =>
                           /\ new.frequency = old.frequency
                           /\ new.spreading_factor = old.spreading_factor ]_vars

\* The spec's example: a first uplink with rxInfo and txInfo, then one with
\* another object and neither
C7_Witness ==
    /\ HasEntry(device_data, "aa")
    /\ device_data["aa"].message_count = 2
    /\ device_data["aa"].decoded_data = Obj2
    /\ device_data["aa"].rssi = "-60"
    /\ device_data["aa"].gateway_id = "gw1"
    /\ device_data["aa"].frequency = "868100000"

-----------------------------------------------------------------------------
(* Claims about the broadcast hub and the callback threads *)

\* The notification of uplink t is in the log of a subscriber
GotNotification(log, t) == \E n \in 1 .. Len(log) : log[n].uplink = t

C4_NotificationsInUplinkOrderPerDevice ==
    \A w \in WebSockets :
        \A p, q \in 1 .. Len(received[w]) :
            (p < q /\ received[w][p].device_eui = received[w][q].device_eui) =>
                received[w][p].uplink < received[w][q].uplink

-----------------------------------------------------------------------------
(* Claims about the device status, checked under SpecStatus *)

\* The live data has a last_seen timestamp
HasLastSeen(live) == live.found /\ live.entry.last_seen.fmt \in { "iso", "local" }

\* The instant the stored last_seen denotes to its reader: an ISO string
\* with its offset, an old-format string as UTC
LastSeenOf(live) == live.entry.last_seen.wall - live.entry.last_seen.off

StatusForAge(age) ==
    CASE age < 120 -> "online"
      [] age >= 120 /\ age < 600 -> "recent"
      [] age >= 600 -> "offline"

\* C5: every read of the status of a device that has a last_seen returns
\* 'online' when now - last_seen < 120 s, 'recent' when 120 s <= now -
\* last_seen < 600 s and 'offline' when now - last_seen >= 600 s, now being
\* the clock at the time of that read; the read leaves the device entries
\* as they are, and the entry it was given has no status field.
C5_StatusFollowsAgeThresholds ==
    [][ \A live \in StatusInputs :
            (get_device(live) \/ get_devices(live)) /\ HasLastSeen(live) =>
                /\ statusOut' = StatusForAge(now - LastSeenOf(live))
                /\ statusIn' = live
                /\ "status" \notin DOMAIN statusIn'.entry
                /\ device_data' = device_data ]_vars

\* A device seen 300 s before the read was reported as recent
C5_Witness ==
    /\ HasLastSeen(statusIn)
    /\ now - LastSeenOf(statusIn) = 300
    /\ statusOut = "recent"

-----------------------------------------------------------------------------
(* Claims about command dispatch, checked under SpecDispatch *)

ExpectedItem(dev, switch_type, action) ==
    [ dev_eui |-> dev, confirmed |-> TRUE, f_port |-> 85,
      object |-> { << switch_type, action >> } ]

SingleChannelItem(item) ==
    /\ item.confirmed
    /\ item.f_port = 85
    /\ Cardinality(item.object) = 1
    /\ \A p \in item.object : p[1] \in { "switch_1", "switch_2" } /\ p[2] \in { "on", "off" }

\* What a request for both channels adds to the queue when the failAt-th
\* call fails (0: none does)
BothItems(dev, action, failAt) ==
    SubSeq(<< ExpectedItem(dev, "switch_1", action), ExpectedItem(dev, "switch_2", action) >>,
           1, IF failAt = 0 THEN 2 ELSE failAt - 1)

\* C8: every enqueued downlink has a payload object with exactly one key, the
\* channel, mapped to the action, is confirmed and uses fPort 85; a request
\* for both channels, over HTTP or from the command line, enqueues the
\* switch_1 item and then the switch_2 item of that device (the second only
\* if the first call returned), never one item with both keys.
C8_OneChannelPerDownlink ==
    [][ /\ \A n \in 1 .. Len(enqueued') : SingleChannelItem(enqueued'[n])
        /\ \A dev \in Keys, action \in { "on", "off" }, failAt \in 0 .. 2 :
              /\ \A switch \in { "both", None } :
                     control_device(dev, TRUE, action, switch, failAt) =>
                         enqueued' = enqueued \o BothItems(dev, action, failAt)
              /\ control_light(dev, action, "both", failAt) =>
                     enqueued' = enqueued \o BothItems(dev, action, failAt) ]_vars

\* A request for both channels of aa was served with two downlinks
C8_Witness ==
    /\ response = Response("control_device", "200", "Command sent: both switches")
    /\ enqueued = << ExpectedItem("aa", "switch_1", "on"), ExpectedItem("aa", "switch_2", "on") >>

\* C9: a control request whose action is neither 'on' nor 'off' is answered
\* with HTTP 400 by control_device and with exit code 1 by control_light,
\* and leaves the downlink queue of every device as it was.
C9_InvalidActionEnqueuesNothing ==
    [][ \A dev \in Keys, action \in RequestActions \ { "on", "off" }, failAt \in 0 .. 2 :
          /\ \A switch \in RequestSwitches :
                 control_device(dev, TRUE, action, switch, failAt) =>
                     enqueued' = enqueued /\ response'.status = "400"
          /\ \A switch \in CliSwitches :
                 action \in CliActions /\ control_light(dev, action, switch, failAt) =>
                     enqueued' = enqueued /\ response'.status = "exit 1" ]_vars

\* An invalid action was rejected after two downlinks had been enqueued
C9_Witness ==
    /\ response = Response("control_device", "400", "Action must be 'on' or 'off'")
    /\ Len(enqueued) = 2

-----------------------------------------------------------------------------
(* Claims about the client's life cycle, checked under SpecLifecycle *)

\* C10: a failed connection attempt is never fatal: as long as stop() has
\* not been called, the thread of start(), the only one that makes
\* connection attempts, has not returned.
C10_ClientAliveUntilStopped == startPc = "returned" => stopPc # "idle"

\* C11: the client is stopped (running = false and the network loop exited,
\* start() having returned) only if stop() has been requested.
C11_StoppedOnlyByStop == (~running /\ startPc = "returned") => stopPc # "idle"

\* C12: a CONNACK with rc = 0, on the first connect and on every reconnect,
\* sets connected and subscribes to application/{application_id}/device/+/
\* event/up, or to application/+/device/+/event/up when no application id is
\* configured; a CONNACK with rc # 0 clears connected and subscribes to
\* nothing.
C12_SubscribedOnEveryConnect ==
    [][ /\ LoopConnack(0) =>
              /\ connected'
              /\ subscription' =
                     << "application",
                        IF application_id \notin { None, "" } THEN application_id ELSE "+",
                        "device", "+", "event", "up" >>
              /\ subscribed < MaxSubscribes => subscribed' = subscribed + 1
        /\ LoopConnack(5) =>
              /\ ~connected'
              /\ subscription' = NoKey
              /\ subscribed' = subscribed ]_vars

\* The client is connected again after a lost connection and has subscribed
\* a second time
C12_Witness ==
    /\ link = "up"
    /\ connected
    /\ subscribed = 2
    /\ subscription # NoKey

-----------------------------------------------------------------------------
(* Claims about readers of the device map, checked under SpecReaders *)

\* What the map holds for the device once message m is applied as a whole to
\* what it held when m arrived
WhollyApplied(before, m) ==
    LiveData(TRUE, TxUpdate(RxUpdate(MainUpdate(IF before.found THEN before.entry ELSE FreshEntry,
                                                m, now, tz), m), m))

\* C13: a reader of the device map that runs while the network thread is
\* applying a well-formed uplink of device k sees for k either what the map
\* held before that uplink or the entry with the uplink applied as a whole,
\* never a mixture of the two.
C13_ReaderSeesWholeEntries ==
    [][ \A k \in Keys :
            ReadDevice(k) /\ proc.pc # "idle" /\ ~RxRaises(proc.m) /\ Lower(proc.m.devEui) = k =>
                observed' \in { proc.before, WhollyApplied(proc.before, proc.m) } ]_vars

-----------------------------------------------------------------------------
(* Claims about the hub under concurrent registration, checked under SpecHub *)

\* How many times the notification of uplink t is in the log of a subscriber
TimesNotified(log, t) == Cardinality({ n \in 1 .. Len(log) : log[n].uplink = t })

\* C14: when a broadcast pass has returned, every subscriber that was
\* registered when it began and is still registered (a WebSocket registers
\* only once, so it was registered during the whole pass) has been sent the
\* message exactly once, whatever other subscribers did meanwhile.
C14_StayingSubscribersNotifiedOnce ==
    \A t \in Threads :
        threads[t].pc = "done" =>
            \A n \in 1 .. Len(threads[t].start) :
                InList(active_connections, threads[t].start[n]) =>
                    TimesNotified(received[threads[t].start[n]], t) = 1

-----------------------------------------------------------------------------
(* Claims about the callback threads, checked under SpecPipeline *)

\* Thread t is inside the update callback: before or in the database write,
\* or in the fan-out
InCallback(t) == threads[t].pc \in { "spawned", "built", "selected", "sending", "removing", "remove" }

\* C15: while the callback of an uplink is still running, in its database
\* write or in its fan-out, the network loop can take the next uplink and
\* apply it to the device map (as long as the model's bounds allow another
\* uplink at all).
C15_CallbackNeverBlocksIngestion ==
    (/\ \E t \in Threads : InCallback(t)
     /\ Len(threads) < MaxThreads
     /\ TotalUplinks < MaxUplinks) =>
        \A m \in PipelineUplinks : ENABLED OnMessage(m)

\* The callback of the first uplink of a device is still in its database
\* write when the device's second uplink is in the map
C15_Witness ==
    /\ Len(threads) = 2
    /\ threads[1].pc = "selected"
    /\ threads[2].eui = threads[1].eui
    /\ device_data[threads[1].eui].message_count = threads[1].data.message_count + 1

\* Thread t is past its database write and the table has no row for its
\* device: the write failed
SaveFailed(t) ==
    /\ threads[t].pc \in { "sending", "removing", "remove", "done", "raised" }
    /\ threads[t].eui \notin DOMAIN db

\* C16: a database write that fails changes nothing in the device map, so
\* that the entry stays as the uplinks left it, and once a write has failed
\* the network loop still takes and applies the next uplink (as long as the
\* model's bounds allow another uplink at all).
C16_FailedSaveLeavesMapAlone ==
    /\ [][ \A t \in Threads : SaveCommit(t, FALSE) => device_data' = device_data ]_vars
    /\ []( (/\ \E t \in Threads : SaveFailed(t)
            /\ Len(threads) < MaxThreads
            /\ TotalUplinks < MaxUplinks) =>
               \A m \in PipelineUplinks : ENABLED OnMessage(m) )

\* The write for the first uplink of aa failed, the entry still counts it,
\* and a second uplink of aa has been applied since
C16_Witness ==
    /\ Len(threads) = 2
    /\ threads[1].eui = "aa"
    /\ threads[2].eui = "aa"
    /\ SaveFailed(1)
    /\ threads[2].pc = "spawned"
    /\ device_data["aa"].message_count = 2

\* Uplinks of the device of thread t that were applied after the one that
\* started t
LaterUplinks(t) == Cardinality({ u \in Threads : u > t /\ threads[u].eui = threads[t].eui })

\* C18: the payload a callback thread has built for its uplink holds the
\* decoded_data of that uplink and the message_count the entry had right
\* after that uplink was applied, that is the entry's present count less the
\* uplinks of the device applied since.
C18_PayloadIsSnapshotOfItsUplink ==
    \A t \in Threads :
        threads[t].pc # "spawned" =>
            /\ threads[t].data.decoded_data = threads[t].object
            /\ threads[t].data.message_count =
                   device_data[threads[t].eui].message_count - LaterUplinks(t)

-----------------------------------------------------------------------------
(* Claims about malformed and incomplete uplinks, checked under SpecStore *)

\* C17: an uplink whose processing raises after the device id was extracted
\* (its first rxInfo element is not an object) leaves the device map as it
\* was, creates no entry and starts no callback thread.
C17_FailedUplinkChangesNothing ==
    [][ \A m \in BadShapeUplinks :
            OnMessage(m) => device_data' = device_data /\ threads' = threads ]_vars

\* C19: an uplink without deviceName leaves the stored device_name of a
\* device that has one as it was, and an uplink without deviceProfileName
\* leaves the stored device_profile as it was.
C19_MissingNameKeepsStoredName ==
    [][ \A m \in GoodUplinks :
            (OnMessage(m) /\ HasEntry(device_data, Lower(m.devEui))) =>
                LET old == device_data[Lower(m.devEui)]
                    new == device_data'[Lower(m.devEui)]
                IN  /\ (m.deviceName = NoKey /\ old.device_name # NoKey) =>
                           new.device_name = old.device_name
                    /\ (m.deviceProfileName = NoKey /\ old.device_profile # NoKey) =>
                           new.device_profile = old.device_profile ]_vars

\* The value an uplink must leave under a radio field: that of the key in
\* the uplink's object when the object has the key, the stored one otherwise
KeptOrGiven(d, key, stored) == IF \E p \in d : p[1] = key THEN DictGet(d, key, None) ELSE stored

\* A field of an entry as entry.get(field) reads it: None when it is absent
AsRead(x) == IF x = NoKey THEN None ELSE x

\* C20: an uplink with a non-empty rxInfo overwrites rssi, snr and gateway_id
\* with the values its first rxInfo element has and leaves those the element
\* lacks as they were; one with a non-empty txInfo does the same for
\* frequency and spreading_factor; no other rxInfo element is used.
C20_MissingSubFieldsKeepStoredValues ==
    [][ \A m \in GoodUplinks :
            OnMessage(m) =>
                LET k == Lower(m.devEui)
                    old == IF k \in DOMAIN device_data THEN device_data[k] ELSE FreshEntry
                    new == device_data'[k]
                IN  /\ (m.hasRx /\ m.rxInfo # << >>) =>
                           /\ AsRead(new.rssi) = KeptOrGiven(m.rxInfo[1].d, "rssi", AsRead(old.rssi))
                           /\ AsRead(new.snr) = KeptOrGiven(m.rxInfo[1].d, "snr", AsRead(old.snr))
                           /\ AsRead(new.gateway_id) = KeptOrGiven(m.rxInfo[1].d, "gatewayId", AsRead(old.gateway_id))
                    /\ (m.hasTx /\ m.txInfo # {}) =>
                           /\ AsRead(new.frequency) = KeptOrGiven(m.txInfo, "frequency", AsRead(old.frequency))
                           /\ AsRead(new.spreading_factor) =
                                  KeptOrGiven(m.txInfo, "modulation.lora.spreadingFactor",
                                              AsRead(old.spreading_factor)) ]_vars

-----------------------------------------------------------------------------
(* Claims about the keys of the device map, checked under SpecStore *)

\* C21: every key of the device map is a lower-cased device id, after the
\* load and after every uplink, and an uplink changes the map only under the
\* lower-cased form of its devEui, so that two spellings of one id share one
\* entry.
C21_KeysAreLowerCased ==
    /\ [](\A k \in DOMAIN device_data : Lower(k) = k)
    /\ [][ \A m \in GoodUplinks :
               OnMessage(m) =>
                   /\ DOMAIN device_data' = (DOMAIN device_data) \cup { Lower(m.devEui) }
                   /\ \A k \in DOMAIN device_data :
                          k # Lower(m.devEui) => device_data'[k] = device_data[k] ]_vars

\* Uplinks spelled AA and aa were both applied to the one entry aa
C21_Witness ==
    /\ db = EmptyDb
    /\ DOMAIN device_data = { "aa" }
    /\ uplinks["aa"] = 2
    /\ device_data["aa"].message_count = 2
    /\ device_data["aa"].decoded_data = Obj2
    /\ device_data["aa"].snr = "7"

-----------------------------------------------------------------------------
(* Claims about the topic filter, checked under SpecTopics *)

\* The uplink pattern application/{application_id}/device/{device_eui}/event/up
MatchesUplinkPattern(topic) ==
    /\ Len(topic) = 6
    /\ topic[1] = "application"
    /\ topic[3] = "device"
    /\ topic[5] = "event"
    /\ topic[6] = "up"

\* C22: a message on a topic that does not match the uplink pattern leaves
\* every entry of the device map as it was and starts no update callback,
\* whatever its payload.
C22_OtherTopicsAreDropped ==
    [][ \A m \in Messages \cup OtherTopicMessages :
            (~MatchesUplinkPattern(m.topic) /\ OnMessage(m)) =>
                (device_data' = device_data /\ threads' = threads) ]_vars

-----------------------------------------------------------------------------
(* Claims about consumption after a bad message, checked under SpecStore *)

\* C23: whatever messages were delivered before, malformed ones included, the
\* network loop takes the next valid uplink, and that uplink is decoded and
\* applied: its entry counts one message more, holds its decoded object and a
\* callback is started for it.
C23_BadMessageNeverWedgesConsumption ==
    /\ []( (startupPc = "started" /\ TotalUplinks < MaxUplinks) =>
               \A m \in GoodUplinks : ENABLED OnMessage(m) )
    /\ [][ \A m \in GoodUplinks :
               OnMessage(m) =>
                   /\ device_data'[Lower(m.devEui)].message_count =
                          EntryOrFresh(device_data, Lower(m.devEui)).message_count + 1
                   /\ m.hasObject =>
                          device_data'[Lower(m.devEui)].decoded_data = m.object
                   /\ Len(threads') = Len(threads) + 1
                   /\ threads'[Len(threads')].eui = Lower(m.devEui) ]_vars

\* A dropped message and an uplink that failed half-way were delivered, and
\* the valid uplink that came after them was applied
C23_Witness ==
    /\ db = EmptyDb
    /\ drops = 1
    /\ uplinks["aa"] = 2
    /\ Len(threads) = 1
    /\ threads[1].object = Obj1
    /\ device_data["aa"].message_count = 2
    /\ device_data["aa"].decoded_data = Obj1
    /\ device_data["aa"].rssi = "-60"

-----------------------------------------------------------------------------
(* Claims about the frame of the callback, checked under SpecPipeline *)

\* C24: no step of the update callback (building the payload, the database
\* write, the sends to the subscribers, the removal of failed subscribers)
\* changes the device map, whether the write or a send fails or not.
C24_CallbackLeavesMapAlone ==
    [][ \A t \in Threads : run_callback(t) => device_data' = device_data ]_vars

\* A callback has returned after its write and a send failed, and the entry
\* is as its uplink left it
C24_Witness ==
    /\ Len(threads) = 1
    /\ threads[1].pc = "done"
    /\ SaveFailed(1)
    /\ threads[1].disconnected # << >>
    /\ device_data[threads[1].eui].message_count = 1
    /\ device_data[threads[1].eui].decoded_data = threads[1].object

-----------------------------------------------------------------------------
(* Claims about persistence across a restart, checked under SpecRestart *)

\* The values save_device_state was given by thread t
Written(t) ==
    [ device_name |-> threads[t].device_name,
      message_count |-> threads[t].data.message_count,
      decoded_data |-> threads[t].data.decoded_data,
      rssi |-> threads[t].data.rssi,
      snr |-> threads[t].data.snr ]

\* The same fields of a map entry
Rehydrated(entry) ==
    [ device_name |-> entry.device_name,
      message_count |-> entry.message_count,
      decoded_data |-> entry.decoded_data,
      rssi |-> entry.rssi,
      snr |-> entry.snr ]

\* C25: the row a committed save leaves for a device loads as an entry whose
\* device_name, message_count, decoded_data, rssi and snr are the values the
\* save was given; the load at startup puts exactly that entry under the
\* row's device_eui; and the first uplink of the device after the load makes
\* message_count the persisted count plus one.
C25_RehydrationRoundTrip ==
    /\ [][ \A t \in Threads :
               (SaveCommit(t, TRUE) /\ db' # db) =>
                   Rehydrated(LoadedEntry(db'[threads[t].eui])) = Written(t) ]_vars
    /\ [][ StartupLoad =>
               /\ DOMAIN device_data' = DOMAIN db
               /\ \A k \in DOMAIN db :
                      device_data'[k] = LoadedEntry(db[k]) ]_vars
    /\ [][ \A m \in PipelineUplinks :
               (OnMessage(m) /\ threads = << >> /\ Lower(m.devEui) \in DOMAIN db) =>
                   device_data'[Lower(m.devEui)].message_count =
                       db[Lower(m.devEui)].message_count + 1 ]_vars

\* The first uplink of aa was saved with count 1 in a table that was empty,
\* the server was started again, and the next uplink of aa made the count 2
C25_Witness ==
    /\ startupPc = "started"
    /\ uplinks["aa"] = 2
    /\ Len(threads) = 1
    /\ threads[1].pc = "spawned"
    /\ "aa" \in DOMAIN db
    /\ db["aa"].message_count = 1
    /\ device_data["aa"].message_count = 2

-----------------------------------------------------------------------------
(* Claims about the order of database writes, checked under SpecPipeline *)

\* C26: the callback of an older uplink never overwrites the record of a
\* newer one: the message_count persisted for a device never decreases.
C26_PersistedCountNeverDecreases ==
    [][ \A k \in DOMAIN db :
            k \in DOMAIN db' /\ db'[k].message_count >= db[k].message_count ]_vars

-----------------------------------------------------------------------------
(* Claims about removing subscribers, checked under SpecHub *)

\* C27: removing a subscriber that has left the list by now raises nothing,
\* so that no broadcast pass ends in an error while it removes its failed
\* subscribers.
C27_DisconnectNeverRaises ==
    \A t \in Threads : threads[t].pc # "raised"

-----------------------------------------------------------------------------
(* Claims about stopping the client, checked under SpecLifecycle *)

\* C28: once stop() has been called the client is never running again,
\* whatever start() was doing when stop() was called.
C28_NeverRunningAfterStop ==
    stopPc # "idle" => ~running

-----------------------------------------------------------------------------
(* Claims about the rows of the table, checked under SpecPipeline *)

\* C29: the table never holds more than one row for a device_eui, whatever
\* the interleaving of the saves, and no save raises: the callback thread
\* goes on to the broadcast after every save, the refused insert included.
C29_OneRowPerDevice ==
    /\ [](\A k \in Keys :
              /\ row_count[k] <= 1
              /\ row_count[k] = 1 <=> k \in DOMAIN db)
    /\ [][ \A t \in Threads : \A commits \in BOOLEAN :
               SaveCommit(t, commits) => threads'[t].pc = "sending" ]_vars

\* Two first-time saves of one device ran concurrently: both selected no row,
\* both are past their commit, and the table holds one row
C29_Witness ==
    /\ Len(threads) = 2
    /\ threads[1].eui = threads[2].eui
    /\ ~threads[1].existing
    /\ ~threads[2].existing
    /\ threads[1].pc \in { "sending", "removing", "remove", "done" }
    /\ threads[2].pc \in { "sending", "removing", "remove", "done" }
    /\ row_count[threads[1].eui] = 1
    /\ db[threads[1].eui].message_count = 2

-----------------------------------------------------------------------------
(* Claims about the status of a fresh entry, checked under SpecFreshness *)

\* C30: the status of a device read right after its uplink was accepted, from
\* the last_seen that uplink stored, is online, whatever the host's time zone.
C30_FreshUplinkIsOnline ==
    [][ \A k \in Keys :
            (/\ get_devices(Lookup(device_data, k))
             /\ HasEntry(device_data, k)
             /\ device_data[k].last_seen.fmt = "local") =>
                statusOut' = "online" ]_vars

=============================================================================
